---- MODULE Spec2Model ----
(***************************************************************************)
(* A model of scripts/generate-marble-textures.py: the multi-octave noise  *)
(* synthesizer (create_seamless_noise), the vein painter (add_veins), the  *)
(* five preset generators and the batch driver (main).                     *)
(*                                                                         *)
(* Numbers.  Python floats are kept in fixed point:                        *)
(*   - a draw of np.random.rand is an integer in 0..RandUnit-1, standing   *)
(*     for value/RandUnit;                                                 *)
(*   - the octave accumulator is in units of 1/(RandUnit*AmpUnit);         *)
(*   - a normalised noise value is in units of 1/NoiseUnit;                *)
(*   - a float pixel channel is in units of 1/FloatUnit;                   *)
(*   - the vein walk's y and sin() are in units of 1/Milli, its angle in   *)
(*     units of 1/AngleUnit radian.                                        *)
(* Library calls are modelled by what their documentation says they do:    *)
(* ndimage.zoom by its output shape and its coordinate mapping (with a     *)
(* linear kernel in place of the cubic spline), ImageDraw.line by the      *)
(* pixels within half the width of each segment and PIL's alpha blend,     *)
(* GaussianBlur by a 3x3 binomial kernel with replicated edges.            *)
(***************************************************************************)
EXTENDS Integers, Sequences, FiniteSets, TLC

VARIABLES
    ctx,            \* entry point of the run: "main", "noise" or "veins"
    pc,             \* position in the code
    cast_mode,      \* what the build does on an out-of-range float -> uint8 cast
    size,           \* main: the output resolution
    k,              \* main: index of the current entry of textures
    layer,          \* generate_*: index of the current add_veins call
    base,           \* generate_*: the image buffer
    out_img,        \* generate_*: the PIL image that is returned
    files,          \* the output directory: index of textures -> file
    invoked,        \* the generators main has called
    save_failed,    \* the entry whose img.save raised (0: none)
    success_printed,\* main printed its last message
    np_rng,         \* numpy's global generator: its state and who wrote it last
    py_owner,       \* the preset that last advanced Python's global random state
    np_seen,        \* per preset: the writers of the numpy state it read
    py_seen,        \* per preset: the writers of the random state it read
    nargs,          \* create_seamless_noise: width, height, scale
    octave,         \* create_seamless_noise: the loop variable
    noise,          \* create_seamless_noise: the accumulator, then the result
    call,           \* noise harness: which call is running, and the state it began in
    results,        \* noise harness: the fields returned so far
    img_array,      \* add_veins: the argument buffer
    vargs,          \* add_veins: color, num_veins, thickness_range
    img,            \* add_veins: the PIL image drawn on
    vein,           \* add_veins: veins finished
    points,         \* add_veins: the current vein's points
    walk,           \* add_veins: x, y, angle of the walk and its start x
    line_calls,     \* add_veins: the point lists handed to draw.line
    av_ret          \* add_veins: the returned buffer

vars == <<ctx, pc, cast_mode, size, k, layer, base, out_img, files, invoked, save_failed,
          success_printed, np_rng, py_owner, np_seen, py_seen, nargs, octave,
          noise, call, results, img_array, vargs, img, vein, points, walk,
          line_calls, av_ret>>

mainVars == <<size, k, layer, base, out_img, files, invoked, save_failed, success_printed>>
noiseVars == <<nargs, octave, noise>>
harnessVars == <<call, results>>
veinVars == <<img_array, vargs, img, vein, points, walk, line_calls, av_ret>>
rngVars == <<np_rng, py_owner, np_seen, py_seen>>

----------------------------------------------------------------------------
(* Bounds of the model *)

\* main and the noise harness run at resolutions 1..MaxSize
MaxSize == 3
\* at most MaxVeins veins are walked per add_veins call
MaxVeins == 2

(* Units of the fixed-point representation *)
RandUnit == 100
AmpUnit == 32
NoiseUnit == 1000
FloatUnit == 100000
Milli == 1000
AngleUnit == 100

\* the value of 0.0/0.0 (a float that is no number); every real value is >= 0
NaN == -1

\* range(6)
NumOctaves == 6
\* the modulus of the model's numpy generator state
RngMod == 64

Min(a, b) == IF a < b THEN a ELSE b
Max(a, b) == IF a > b THEN a ELSE b
Abs(a) == IF a < 0 THEN -a ELSE a

RECURSIVE Pow2(_)
Pow2(n) == IF n = 0 THEN 1 ELSE 2 * Pow2(n - 1)

SetMin(S) == LET e == CHOOSE e \in S : \A f \in S : e <= f IN e

SetMax(S) == LET e == CHOOSE e \in S : \A f \in S : e >= f IN e

Pixels(h, w) == (0 .. h - 1) \X (0 .. w - 1)

----------------------------------------------------------------------------
(* numpy's global generator *)

\* a seed call that leaves the generator as it was
NpSeedNone(rng, s, who) == rng
\* np.random.seed(s): the state becomes a function of s alone
NpSeed(rng, s, who) == [state |-> s % RngMod, owner |-> who]

\* the i-th value of one np.random.rand call made in state st
NpDraw(st, i) == (((st + 1) * 37 + i * 61 + (st + i) * (st + i)) * 7919 % 104729) % RandUnit

\* np.random.rand(rows, cols): the grid drawn, and the state after it
NpRand(rng, rows, cols, who) ==
    [grid |-> [p \in Pixels(rows, cols) |-> NpDraw(rng.state, p[1] * cols + p[2])],
     rows |-> rows, cols |-> cols,
     rng |-> [state |-> (rng.state + rows * cols) % RngMod, owner |-> who]]

----------------------------------------------------------------------------
(* create_seamless_noise *)

\* a grid without the two extra rows and columns
GridDimShort(n, freq) == n \div freq
\* int(n / freq) + 2, the side of an octave's random grid
GridDim(n, freq) == (n \div freq) + 2

\* ndimage.zoom's output side: round(side * zoom)
ZoomDim(side, freq) == side * freq

\* ndimage.zoom(grid, freq, mode='wrap') at output pixel (r, c), in units of
\* 1/(RandUnit * AmpUnit) after the weight amp = 1/freq.  Output index o of an
\* axis maps to input coordinate o * (in - 1) / (out - 1).
ZoomAt(g, freq, r, c) ==
    LET outR == ZoomDim(g.rows, freq)
        outC == ZoomDim(g.cols, freq)
        denR == Max(outR - 1, 1)
        denC == Max(outC - 1, 1)
        r0 == (r * (g.rows - 1)) \div denR
        fr == (r * (g.rows - 1)) % denR
        c0 == (c * (g.cols - 1)) \div denC
        fc == (c * (g.cols - 1)) % denC
        r1 == (r0 + 1) % g.rows
        c1 == (c0 + 1) % g.cols
        num == g.grid[<<r0, c0>>] * (denR - fr) * (denC - fc)
             + g.grid[<<r1, c0>>] * fr * (denC - fc)
             + g.grid[<<r0, c1>>] * (denR - fr) * fc
             + g.grid[<<r1, c1>>] * fr * fc
    IN (num * (AmpUnit \div freq)) \div (denR * denC)

\* noise_layer_resized[:height, :width]: the shape of the crop
CropShape(h, w, freq) ==
    <<Min(h, ZoomDim(GridDim(h, freq), freq)), Min(w, ZoomDim(GridDim(w, freq), freq))>>

\* (noise - noise.min()) / (noise.max() - noise.min())
Normalize(f) ==
    LET vals == {f.px[p] : p \in DOMAIN f.px}
        lo == SetMin(vals)
        hi == SetMax(vals)
    IN [f EXCEPT !.px = [p \in DOMAIN f.px |->
            IF hi = lo THEN NaN ELSE ((f.px[p] - lo) * NoiseUnit) \div (hi - lo)]]

\* noise = np.zeros((height, width)); the loop starts
NoiseStart ==
    /\ pc = "noise_start"
    /\ noise' = [h |-> nargs.height, w |-> nargs.width,
                 px |-> [p \in Pixels(nargs.height, nargs.width) |-> 0]]
    /\ octave' = 0
    /\ call' = [call EXCEPT !.entry = np_rng.state]
    /\ pc' = "noise_octave"
    /\ UNCHANGED <<ctx, cast_mode, mainVars, rngVars, nargs, results, veinVars>>

\* who is running: the preset of main, or 0 in a harness
Who == IF ctx = "main" THEN k ELSE 0

\* one iteration of the octave loop (lines 22-35)
NoiseOctave ==
    /\ pc = "noise_octave"
    /\ octave < NumOctaves
    /\ LET freq == Pow2(octave)
           seeded == NpSeed(np_rng, octave + 42, Who)
           drawn == NpRand(seeded, GridDim(noise.h, freq), GridDim(noise.w, freq), Who)
           crop == CropShape(noise.h, noise.w, freq)
       IN /\ np_rng' = drawn.rng
          /\ np_seen' = IF ctx = "main"
                        THEN [np_seen EXCEPT ![k] = @ \cup {seeded.owner}]
                        ELSE np_seen
          /\ IF crop = <<noise.h, noise.w>>
             THEN /\ noise' = [noise EXCEPT !.px = [p \in DOMAIN noise.px |->
                                   noise.px[p] + ZoomAt(drawn, freq, p[1], p[2])]]
                  /\ octave' = octave + 1
                  /\ pc' = "noise_octave"
             ELSE \* operands could not be broadcast together
                  /\ pc' = "error"
                  /\ UNCHANGED <<noise, octave>>
    /\ UNCHANGED <<ctx, cast_mode, mainVars, py_owner, py_seen, nargs, harnessVars,
                   veinVars>>

\* lines 37-39: normalise and return
NoiseReturn ==
    /\ pc = "noise_octave"
    /\ octave = NumOctaves
    /\ noise' = Normalize(noise)
    /\ IF ctx = "main"
       THEN pc' = "gen_texture" /\ UNCHANGED harnessVars
       ELSE /\ results' = Append(results, [entry |-> call.entry, field |-> Normalize(noise)])
            /\ pc' = IF call.no = 1 THEN "between_calls" ELSE "harness_done"
            /\ UNCHANGED call
    /\ UNCHANGED <<ctx, cast_mode, mainVars, rngVars, nargs, octave, veinVars>>

\* the noise harness: anything may run between two calls and leave numpy's
\* generator in any state; the second call has the arguments of the first
Between ==
    /\ pc = "between_calls"
    /\ \E s \in 0 .. RngMod - 1 : np_rng' = [state |-> s, owner |-> 0]
    /\ call' = [call EXCEPT !.no = 2]
    /\ pc' = "noise_start"
    /\ UNCHANGED <<ctx, cast_mode, mainVars, py_owner, np_seen, py_seen, noiseVars,
                   results, veinVars>>

----------------------------------------------------------------------------
(* add_veins *)

\* what astype(np.uint8) stores for the float t/FloatUnit * 255.  Inside 0..255
\* the fraction is dropped.  Outside, the C conversion is undefined: the build
\* either keeps the low 8 bits of the integer part or saturates.  A NaN gives
\* 0 on both.
CastFloat(v, mode) ==
    LET t == (v * 255) \div FloatUnit
    IN IF v = NaN THEN 0
       ELSE IF t <= 255 THEN t
       ELSE IF mode = "wrap" THEN t % 256 ELSE 255

\* uint8 * 255 stays uint8: the product is kept modulo 256
MulUint8(v) == (v * 255) % 256

\* line 44: (img_array * 255).astype(np.uint8), one channel
ToUint8(dtype, v, mode) == IF dtype = "f64" THEN CastFloat(v, mode) ELSE MulUint8(v)

\* line 44: Image.fromarray(... .reshape(height, width, 3))
FromArray(buf, mode) ==
    [dtype |-> "u8", h |-> buf.h, w |-> buf.w,
     px |-> [p \in DOMAIN buf.px |->
                [c \in 1 .. 3 |-> ToUint8(buf.dtype, buf.px[p][c], mode)]]]

\* -width//4 and width + width//4, the bounds of start_x and of the walk
LeftBound(w) == (-w) \div 4
RightBound(w) == w + (w \div 4)

\* samples of the random draws of one vein
StartXs(w) == {LeftBound(w), 0, RightBound(w)}
StartYs(h) == {0, h}
StartAngles == {-50, -15, 50}
AngleDeltas == {-15, 15}
\* steps of random.uniform(15, 35), and steps of a walk that may stand still
StepXStalled == {0, 15}
StepX == {15, 35}
StepY == {10, 30}
Opacities == {30, 120}
Thicknesses(range) == {range[1], range[2]}

\* np.sin of an angle in 1/AngleUnit radian, in 1/Milli: x - x^3/6 + x^5/120
Sin(a) ==
    LET m == Abs(a)
        v == 10 * m - (m * m * m) \div 6000 + (m * m * m * m * m) \div 1200000000
    IN IF a < 0 THEN -v ELSE v

\* line 57: the condition of the while loop
InWalk(wk, h, w) == wk.x < RightBound(w) /\ 0 <= wk.y /\ wk.y < h * Milli

\* int(y) of the walk's y
IntY(y) == IF y >= 0 THEN y \div Milli ELSE -((-y) \div Milli)

\* lines 61-63: one update of the walk
WalkStep(wk, da, dx, u) ==
    LET a == wk.angle + da
    IN [wk EXCEPT !.angle = a, !.x = wk.x + dx, !.y = wk.y + Sin(a) * u]

\* a test that lets a single point through
ShouldDrawOnePoint(pts) == Len(pts) > 0
\* line 65: whether the vein is drawn
ShouldDraw(pts) == Len(pts) > 1

\* PIL's blend of one channel: (src * alpha + dst * (255 - alpha)) / 255, rounded
Blend(dst, src, alpha) ==
    LET tmp == src * alpha + dst * (255 - alpha) + 128
    IN ((tmp \div 256) + tmp) \div 256

\* whether pixel (row, col) lies within half the width of segment a-b
Covered(a, b, thickness, row, col) ==
    /\ a[1] <= col /\ col <= b[1]
    /\ 2 * Abs((row - a[2]) * (b[1] - a[1]) - (b[2] - a[2]) * (col - a[1]))
         <= thickness * (b[1] - a[1])

\* draw.line(points, fill=color + (opacity,), width=thickness): the segments
\* are painted one after the other
RECURSIVE DrawLine(_, _, _, _, _)
DrawLine(image, pts, color, opacity, thickness) ==
    IF Len(pts) < 2 THEN image
    ELSE LET painted == [image EXCEPT !.px = [p \in DOMAIN image.px |->
                 IF Covered(pts[1], pts[2], thickness, p[1], p[2])
                 THEN [c \in 1 .. 3 |-> Blend(image.px[p][c], color[c], opacity)]
                 ELSE image.px[p]]]
         IN DrawLine(painted, Tail(pts), color, opacity, thickness)

\* for _ in range(num_veins), within the model's bound
NumVeins == Min(vargs.num_veins, MaxVeins)

\* a read of Python's global random state by the running preset
PyRead ==
    /\ py_owner' = Who
    /\ py_seen' = IF ctx = "main" THEN [py_seen EXCEPT ![k] = @ \cup {py_owner}]
                  ELSE py_seen

\* lines 43-45: the conversion to an 8-bit image
AddVeinsEnter ==
    /\ pc = "av_enter"
    /\ img' = FromArray(img_array, cast_mode)
    /\ vein' = 0
    /\ line_calls' = <<>>
    /\ pc' = "av_for"
    /\ UNCHANGED <<ctx, cast_mode, mainVars, rngVars, noiseVars, harnessVars,
                   img_array, vargs, points, walk, av_ret>>

\* lines 48-55: the start of a vein
VeinStart ==
    /\ pc = "av_for"
    /\ vein < NumVeins
    /\ \E sx \in StartXs(img.w), sy \in StartYs(img.h), a \in StartAngles :
          walk' = [x |-> sx, y |-> sy * Milli, angle |-> a, start_x |-> sx]
    /\ points' = <<>>
    /\ PyRead
    /\ pc' = "av_while"
    /\ UNCHANGED <<ctx, cast_mode, mainVars, np_rng, np_seen, noiseVars, harnessVars,
                   img_array, vargs, img, vein, line_calls, av_ret>>

\* lines 57-63: one iteration of the while loop
VeinStep ==
    /\ pc = "av_while"
    /\ InWalk(walk, img.h, img.w)
    /\ points' = Append(points, <<walk.x, IntY(walk.y)>>)
    /\ \E da \in AngleDeltas, dx \in StepX, u \in StepY :
          walk' = WalkStep(walk, da, dx, u)
    /\ PyRead
    /\ UNCHANGED <<ctx, pc, cast_mode, mainVars, np_rng, np_seen, noiseVars,
                   harnessVars, img_array, vargs, img, vein, line_calls, av_ret>>

\* lines 65-70: the loop is left; the vein is drawn or dropped
VeinEnd ==
    /\ pc = "av_while"
    /\ ~InWalk(walk, img.h, img.w)
    /\ IF ShouldDraw(points)
       THEN /\ \E th \in Thicknesses(vargs.thickness_range), op \in Opacities :
                 img' = DrawLine(img, points, vargs.color, op, th)
            /\ line_calls' = Append(line_calls, points)
            /\ PyRead
       ELSE UNCHANGED <<img, line_calls, py_owner, py_seen>>
    /\ vein' = vein + 1
    /\ pc' = "av_for"
    /\ UNCHANGED <<ctx, cast_mode, mainVars, np_rng, np_seen, noiseVars, harnessVars,
                   img_array, vargs, points, walk, av_ret>>

\* line 72: return np.array(img)[:,:,:3]; in a generator, base = add_veins(...)
AddVeinsReturn ==
    /\ pc = "av_for"
    /\ vein = NumVeins
    /\ av_ret' = img
    /\ IF ctx = "main"
       THEN /\ base' = img
            /\ layer' = layer + 1
            /\ pc' = "gen_layers"
       ELSE /\ pc' = "veins_done"
            /\ UNCHANGED <<base, layer>>
    /\ UNCHANGED <<ctx, cast_mode, size, k, out_img, files, invoked, save_failed,
                   success_printed, rngVars, noiseVars, harnessVars, img_array,
                   vargs, img, vein, points, walk, line_calls>>

----------------------------------------------------------------------------
(* The preset generators *)

\* generate_white_carrara .. generate_champagne_pearl, in the order of textures.
\* base: the fill in 1/100; amp: the noise amplitude in 1/100; blur: the radius
\* in 1/10.
Presets == <<
    [file |-> "white-carrara-uhd.png", base |-> <<98, 96, 92>>, scale |-> 200, amp |-> 5,
     layers |-> <<[color |-> <<180, 170, 150>>, num_veins |-> 25, thickness_range |-> <<1, 4>>],
                  [color |-> <<210, 200, 180>>, num_veins |-> 15, thickness_range |-> <<2, 6>>]>>,
     blur |-> 5],
    [file |-> "calacatta-gold-uhd.png", base |-> <<99, 98, 96>>, scale |-> 250, amp |-> 3,
     layers |-> <<[color |-> <<200, 170, 110>>, num_veins |-> 12, thickness_range |-> <<4, 12>>],
                  [color |-> <<180, 160, 120>>, num_veins |-> 8, thickness_range |-> <<6, 15>>],
                  [color |-> <<160, 160, 165>>, num_veins |-> 10, thickness_range |-> <<2, 5>>]>>,
     blur |-> 7],
    [file |-> "grey-emperador-uhd.png", base |-> <<75, 74, 73>>, scale |-> 180, amp |-> 8,
     layers |-> <<[color |-> <<100, 100, 105>>, num_veins |-> 20, thickness_range |-> <<2, 7>>],
                  [color |-> <<200, 198, 195>>, num_veins |-> 15, thickness_range |-> <<1, 4>>]>>,
     blur |-> 6],
    [file |-> "statuario-uhd.png", base |-> <<97, 97, 98>>, scale |-> 300, amp |-> 2,
     layers |-> <<[color |-> <<140, 140, 145>>, num_veins |-> 18, thickness_range |-> <<3, 9>>],
                  [color |-> <<170, 170, 175>>, num_veins |-> 12, thickness_range |-> <<1, 5>>]>>,
     blur |-> 5],
    [file |-> "champagne-pearl-uhd.png", base |-> <<92, 88, 82>>, scale |-> 150, amp |-> 6,
     layers |-> <<[color |-> <<180, 160, 130>>, num_veins |-> 22, thickness_range |-> <<2, 6>>],
                  [color |-> <<220, 210, 195>>, num_veins |-> 18, thickness_range |-> <<1, 3>>]>> ,
     blur |-> 6]>>

NumPresets == Len(Presets)
GreyEmperador == 3
Statuario == 4

\* np.ones((size, size, 3)) * np.array([...])
BaseFill(n, color) ==
    [dtype |-> "f64", h |-> n, w |-> n,
     px |-> [p \in Pixels(n, n) |-> [c \in 1 .. 3 |-> color[c] * (FloatUnit \div 100)]]]

\* base += np.stack([noise * amp] * 3, axis=2)
AddTexture(b, nz, amp) ==
    [b EXCEPT !.px = [p \in DOMAIN b.px |-> [c \in 1 .. 3 |->
        IF nz.px[p] = NaN THEN NaN ELSE b.px[p][c] + amp * nz.px[p]]]]

\* (np.clip(base, 0, 1) * 255).astype(np.uint8), one channel
ClipScale(dtype, v, mode) ==
    IF dtype = "f64"
    THEN IF v = NaN THEN CastFloat(NaN, mode)
         ELSE CastFloat(Min(Max(v, 0), FloatUnit), mode)
    ELSE MulUint8(Min(Max(v, 0), 1))

\* Image.fromarray((np.clip(base, 0, 1) * 255).astype(np.uint8))
Quantize(b, mode) ==
    [dtype |-> "u8", h |-> b.h, w |-> b.w,
     px |-> [p \in DOMAIN b.px |-> [c \in 1 .. 3 |-> ClipScale(b.dtype, b.px[p][c], mode)]]]

\* img.filter(ImageFilter.GaussianBlur(radius)): a weighted mean of the pixel
\* and its neighbours, the image's edge pixels repeated outside it.  The radii
\* of the presets (0.5 to 0.7) only change the weights.
GaussianBlur(im, radius) ==
    LET at(r, c, ch) == im.px[<<Min(Max(r, 0), im.h - 1), Min(Max(c, 0), im.w - 1)>>][ch]
        wt(d) == IF d = 0 THEN 2 ELSE 1
    IN [im EXCEPT !.px = [p \in DOMAIN im.px |-> [ch \in 1 .. 3 |->
          LET term(dr, dc) == wt(dr) * wt(dc) * at(p[1] + dr, p[2] + dc, ch)
              sum == term(-1, -1) + term(-1, 0) + term(-1, 1)
                   + term(0, -1) + term(0, 0) + term(0, 1)
                   + term(1, -1) + term(1, 0) + term(1, 1)
          IN (sum + 8) \div 16]]]

\* the mean of channel ch of an image, times the number of its pixels
RECURSIVE SumOver(_, _, _)
SumOver(im, ch, todo) ==
    IF todo = {} THEN 0
    ELSE LET p == CHOOSE q \in todo : TRUE
         IN im.px[p][ch] + SumOver(im, ch, todo \ {p})
ChannelSum(im, ch) == SumOver(im, ch, DOMAIN im.px)

Absent == [state |-> "absent"]

----------------------------------------------------------------------------
(* main *)

\* a loop that catches the error and goes on with the next entry
AfterSaveErrorSwallowed(kk) == [pc |-> "main_loop", k |-> kk + 1]
\* line 206 raised: nothing in main catches it, the run ends there
AfterSaveError(kk) == [pc |-> "aborted", k |-> kk]

\* line 189: os.makedirs(output_dir, exist_ok=True), which may raise
MakeDirs ==
    /\ pc = "main_start"
    /\ \/ pc' = "main_loop" /\ k' = 1
       \/ pc' = "aborted" /\ UNCHANGED k
    /\ UNCHANGED <<ctx, cast_mode, size, layer, base, out_img, files, invoked,
                   save_failed, success_printed, rngVars, noiseVars, harnessVars,
                   veinVars>>

\* lines 202-204 and the generator's first lines: the base fill and the call
\* of create_seamless_noise
GenStart ==
    /\ pc = "main_loop"
    /\ k <= NumPresets
    /\ invoked' = invoked \cup {k}
    /\ base' = BaseFill(size, Presets[k].base)
    /\ nargs' = [width |-> size, height |-> size, scale |-> Presets[k].scale]
    /\ layer' = 1
    /\ pc' = "noise_start"
    /\ UNCHANGED <<ctx, cast_mode, size, k, out_img, files, save_failed,
                   success_printed, rngVars, octave, noise, harnessVars, veinVars>>

\* texture = np.stack([noise * amp] * 3, axis=2); base += texture
GenTexture ==
    /\ pc = "gen_texture"
    /\ base' = AddTexture(base, noise, Presets[k].amp)
    /\ pc' = "gen_layers"
    /\ UNCHANGED <<ctx, cast_mode, size, k, layer, out_img, files, invoked,
                   save_failed, success_printed, rngVars, noiseVars, harnessVars,
                   veinVars>>

\* base = add_veins(base, color, num_veins=..., thickness_range=...): the call
GenCallVeins ==
    /\ pc = "gen_layers"
    /\ layer <= Len(Presets[k].layers)
    /\ img_array' = base
    /\ vargs' = Presets[k].layers[layer]
    /\ pc' = "av_enter"
    /\ UNCHANGED <<ctx, cast_mode, mainVars, rngVars, noiseVars, harnessVars,
                   img, vein, points, walk, line_calls, av_ret>>

\* img = Image.fromarray((np.clip(base, 0, 1) * 255).astype(np.uint8))
GenQuantize ==
    /\ pc = "gen_layers"
    /\ layer > Len(Presets[k].layers)
    /\ out_img' = Quantize(base, cast_mode)
    /\ pc' = "gen_blur"
    /\ UNCHANGED <<ctx, cast_mode, size, k, layer, base, files, invoked, save_failed,
                   success_printed, rngVars, noiseVars, harnessVars, veinVars>>

\* img = img.filter(ImageFilter.GaussianBlur(radius=...)); return img
GenBlur ==
    /\ pc = "gen_blur"
    /\ out_img' = GaussianBlur(out_img, Presets[k].blur)
    /\ pc' = "save"
    /\ UNCHANGED <<ctx, cast_mode, size, k, layer, base, files, invoked, save_failed,
                   success_printed, rngVars, noiseVars, harnessVars, veinVars>>

\* lines 205-207: img.save(filepath, ...) returned
SaveOk ==
    /\ pc = "save"
    /\ files' = [files EXCEPT ![k] = [state |-> "saved", image |-> out_img]]
    /\ k' = k + 1
    /\ pc' = "main_loop"
    /\ UNCHANGED <<ctx, cast_mode, size, layer, base, out_img, invoked, save_failed,
                   success_printed, rngVars, noiseVars, harnessVars, veinVars>>

\* line 206: img.save raised; the file may have been created already
SaveRaise ==
    /\ pc = "save"
    /\ save_failed' = k
    /\ \E f \in {Absent, [state |-> "partial"]} : files' = [files EXCEPT ![k] = f]
    /\ pc' = AfterSaveError(k).pc
    /\ k' = AfterSaveError(k).k
    /\ UNCHANGED <<ctx, cast_mode, size, layer, base, out_img, invoked,
                   success_printed, rngVars, noiseVars, harnessVars, veinVars>>

\* lines 209-210: the loop is over
MainDone ==
    /\ pc = "main_loop"
    /\ k > NumPresets
    /\ success_printed' = TRUE
    /\ pc' = "done"
    /\ UNCHANGED <<ctx, cast_mode, size, k, layer, base, out_img, files, invoked,
                   save_failed, rngVars, noiseVars, harnessVars, veinVars>>

----------------------------------------------------------------------------
(* Specifications *)

\* states numpy's generator may be in when nothing seeded it
EntropyStates == {0, 17, 42, 63}
\* what the build does with a float too large for uint8
CastModes == {"wrap", "saturate"}

NoBuffer == [dtype |-> "u8", h |-> 0, w |-> 0, px |-> <<>>]
NoField == [h |-> 0, w |-> 0, px |-> <<>>]
NoWalk == [x |-> 0, y |-> 0, angle |-> 0, start_x |-> 0]
NoVargs == [color |-> <<0, 0, 0>>, num_veins |-> 0, thickness_range |-> <<1, 1>>]
NoNargs == [width |-> 0, height |-> 0, scale |-> 0]

InitMainVars ==
    /\ k = 0
    /\ layer = 0
    /\ base = NoBuffer
    /\ out_img = NoBuffer
    /\ files = [j \in 1 .. NumPresets |-> Absent]
    /\ invoked = {}
    /\ save_failed = 0
    /\ success_printed = FALSE

InitRng ==
    /\ np_rng \in [state : EntropyStates, owner : {0}]
    /\ py_owner = 0
    /\ np_seen = [j \in 1 .. NumPresets |-> {}]
    /\ py_seen = [j \in 1 .. NumPresets |-> {}]

InitNoiseVars == nargs = NoNargs /\ octave = 0 /\ noise = NoField
InitHarness == call = [no |-> 1, entry |-> 0] /\ results = <<>>
InitVeinVars ==
    /\ img_array = NoBuffer
    /\ vargs = NoVargs
    /\ img = NoBuffer
    /\ vein = 0
    /\ points = <<>>
    /\ walk = NoWalk
    /\ line_calls = <<>>
    /\ av_ret = NoBuffer

\* python generate-marble-textures.py: main()
Init ==
    /\ ctx = "main"
    /\ pc = "main_start"
    /\ cast_mode \in CastModes
    /\ size \in 1 .. MaxSize
    /\ InitMainVars /\ InitRng /\ InitNoiseVars /\ InitHarness /\ InitVeinVars

Next ==
    \/ MakeDirs \/ GenStart \/ GenTexture \/ GenCallVeins \/ GenQuantize \/ GenBlur
    \/ SaveOk \/ SaveRaise \/ MainDone
    \/ NoiseStart \/ NoiseOctave \/ NoiseReturn
    \/ AddVeinsEnter \/ VeinStart \/ VeinStep \/ VeinEnd \/ AddVeinsReturn

Spec == Init /\ [][Next]_vars

\* create_seamless_noise(width, height, scale), called twice
NoiseScales == {100, 300}
InitNoise ==
    /\ ctx = "noise"
    /\ pc = "noise_start"
    /\ cast_mode \in CastModes
    /\ size = 0
    /\ InitMainVars /\ InitRng /\ InitHarness /\ InitVeinVars
    /\ nargs \in [width : 1 .. MaxSize, height : 1 .. MaxSize, scale : NoiseScales]
    /\ octave = 0
    /\ noise = NoField

NextNoise == NoiseStart \/ NoiseOctave \/ NoiseReturn \/ Between

SpecNoise == InitNoise /\ [][NextNoise]_vars

\* add_veins(img_array, color, num_veins, thickness_range), called once
FloatSamples == {50000, 98000, 103000}
Uint8Samples == {0, 249}
UniformBuffer(dtype, h, w, v) ==
    [dtype |-> dtype, h |-> h, w |-> w,
     px |-> [p \in Pixels(h, w) |-> [c \in 1 .. 3 |-> v]]]
\* one pixel in every sample value and on both builds; two wider images, on
\* which a walk takes two and three points
VeinInputs ==
    {[buf |-> UniformBuffer("f64", 1, 1, v), mode |-> m, thickness_range |-> <<1, 4>>] :
        v \in FloatSamples, m \in CastModes}
      \cup {[buf |-> UniformBuffer("u8", 1, 1, v), mode |-> "wrap",
             thickness_range |-> <<1, 4>>] : v \in Uint8Samples}
      \cup {[buf |-> UniformBuffer("f64", 1, 12, 98000), mode |-> "wrap",
             thickness_range |-> <<1, 4>>],
            [buf |-> UniformBuffer("f64", 2, 21, 50000), mode |-> "saturate",
             thickness_range |-> <<2, 2>>]}

InitVeins ==
    /\ ctx = "veins"
    /\ pc = "av_enter"
    /\ \E in \in VeinInputs, n \in 0 .. MaxVeins :
          /\ img_array = in.buf
          /\ cast_mode = in.mode
          /\ vargs = [color |-> <<140, 140, 145>>, num_veins |-> n,
                      thickness_range |-> in.thickness_range]
    /\ size = 0
    /\ InitMainVars /\ InitRng /\ InitNoiseVars /\ InitHarness
    /\ img = NoBuffer
    /\ vein = 0
    /\ points = <<>>
    /\ walk = NoWalk
    /\ line_calls = <<>>
    /\ av_ret = NoBuffer

NextVeins == AddVeinsEnter \/ VeinStart \/ VeinStep \/ VeinEnd \/ AddVeinsReturn

SpecVeins == InitVeins /\ [][NextVeins]_vars

\* the run of one add_veins call goes on while a step is possible
SpecVeinsLive == SpecVeins /\ WF_vars(NextVeins)

----------------------------------------------------------------------------
(* The claims *)

\* a uint8 or image buffer holds the float value v/FloatUnit in a channel
SameValue(u, v) == u * FloatUnit = v

\* C1: add_veins with num_veins = 0 returns a buffer whose every channel value
\* equals the corresponding value of the float buffer it was given.
C1_ZeroVeinsUnchanged ==
    (pc = "veins_done" /\ vargs.num_veins = 0 /\ img_array.dtype = "f64")
        => \A p \in DOMAIN img_array.px : \A c \in 1 .. 3 :
              SameValue(av_ret.px[p][c], img_array.px[p][c])

Clamp255(t) == Min(Max(t, 0), 255)
\* the value a conversion is given, before it is stored in 8 bits
Scaled(dtype, v) == IF dtype = "f64" THEN (v * 255) \div FloatUnit ELSE v * 255
ClippedScaled(dtype, v) ==
    IF dtype = "f64" THEN (Min(Max(v, 0), FloatUnit) * 255) \div FloatUnit
    ELSE Min(Max(v, 0), 1) * 255

\* C2: at every float-to-8-bit conversion (the start of each add_veins call and
\* the end of each generator) the stored 8-bit value is the scaled value
\* clamped to [0, 255], never a value wrapped modulo 256, and every channel of
\* a saved image is in [0, 255].
C2_ConversionsClamp ==
    /\ (pc = "av_for" /\ vein = 0) =>
          \A p \in DOMAIN img_array.px : \A c \in 1 .. 3 :
              img_array.px[p][c] # NaN =>
                 img.px[p][c] = Clamp255(Scaled(img_array.dtype, img_array.px[p][c]))
    /\ pc = "gen_blur" =>
          \A p \in DOMAIN base.px : \A c \in 1 .. 3 :
              base.px[p][c] # NaN =>
                 out_img.px[p][c] = Clamp255(ClippedScaled(base.dtype, base.px[p][c]))
    /\ \A j \in 1 .. NumPresets : files[j].state = "saved" =>
          \A p \in DOMAIN files[j].image.px : \A c \in 1 .. 3 :
              files[j].image.px[p][c] \in 0 .. 255

\* C3: draw.line is called only with a list of at least 2 points, and a vein
\* whose walk accumulated fewer than 2 points is dropped without drawing.
C3_DrawnVeinsHaveTwoPoints ==
    /\ [](\A i \in 1 .. Len(line_calls) : Len(line_calls[i]) >= 2)
    /\ [][(pc = "av_while" /\ pc' = "av_for" /\ Len(points) < 2)
             => (img' = img /\ line_calls' = line_calls)]_vars

\* one vein was drawn and another one dropped
C3_Witness == Len(line_calls) >= 1 /\ vein > Len(line_calls)

\* C4: every value of the field create_seamless_noise returns is in [0, 1]
\* with minimum 0 and maximum 1, or, when the summed field is flat, the field
\* is a uniform 0.5.
C4_NoiseRange ==
    \A i \in 1 .. Len(results) :
        LET vals == {results[i].field.px[p] : p \in DOMAIN results[i].field.px}
        IN \/ /\ \A v \in vals : 0 <= v /\ v <= NoiseUnit
              /\ 0 \in vals
              /\ NoiseUnit \in vals
           \/ vals = {NoiseUnit \div 2}

\* C5: two calls of create_seamless_noise with the same (width, height, scale)
\* return the same field, whatever state numpy's generator was in before each.
C5_NoiseDeterministic ==
    pc = "harness_done" => results[1].field = results[2].field

\* two calls entered in different generator states, on a field that is not flat
C5_Witness ==
    /\ pc = "harness_done"
    /\ results[1].entry # results[2].entry
    /\ nargs.width > 1
    /\ \A p \in DOMAIN results[2].field.px : results[2].field.px[p] # NaN

\* C6: when saving the image of the k-th preset fails, the run ends there: the
\* files of presets 1..k-1 are on disk and stay as saved, no generator after k
\* is invoked, no file after k is written, the success message is not printed.
C6_AbortOnSaveFailure ==
    /\ [](save_failed # 0 =>
            /\ pc = "aborted"
            /\ ~success_printed
            /\ invoked = 1 .. save_failed
            /\ \A j \in 1 .. save_failed - 1 : files[j].state = "saved"
            /\ \A j \in save_failed + 1 .. NumPresets : files[j] = Absent)
    /\ [][\A j \in 1 .. NumPresets :
             files[j].state = "saved" => files'[j] = files[j]]_vars

\* the save of the third preset failed after two files were written
C6_Witness ==
    save_failed = 3 /\ files[1].state = "saved" /\ files[2].state = "saved"

\* the sum of an image's channel sums
Brightness(im) == ChannelSum(im, 1) + ChannelSum(im, 2) + ChannelSum(im, 3)

\* C7: at the same resolution the Statuario image has a mean above 200/255 in
\* each channel and the Grey Emperador image a strictly lower mean brightness.
C7_StatuarioBrighter ==
    (size >= 2 /\ files[Statuario].state = "saved" /\ files[GreyEmperador].state = "saved")
        => /\ \A c \in 1 .. 3 :
                 ChannelSum(files[Statuario].image, c) > 200 * size * size
           /\ Brightness(files[GreyEmperador].image) < Brightness(files[Statuario].image)

\* C8 as stated: no generator reads generator state (numpy's or random's) that
\* an earlier preset modified.
C8_NoSharedState ==
    \A j \in 1 .. NumPresets : (np_seen[j] \cup py_seen[j]) \cap (1 .. j - 1) = {}

\* C8 as amended: a generator starts from a fresh buffer and numpy's generator
\* is never read in a state an earlier preset left (it is seeded before every
\* read); only random's state is carried over.
C8_OnlyRandomCarriedOver ==
    /\ \A j \in 1 .. NumPresets : np_seen[j] \subseteq {j}
    /\ (ctx = "main" /\ pc = "noise_start") => base = BaseFill(size, Presets[k].base)

\* the second preset drew its noise and its veins after the first one ran
C8_Witness == np_seen[2] = {2} /\ 1 \in py_seen[2]

\* C9: every octave's crop has the shape (height, width) of the accumulator,
\* the accumulation never fails, and every saved image is size x size.
C9_ExactDimensions ==
    /\ pc # "error"
    /\ (pc = "noise_octave" /\ octave < NumOctaves) =>
          /\ CropShape(noise.h, noise.w, Pow2(octave)) = <<nargs.height, nargs.width>>
          /\ DOMAIN noise.px = Pixels(nargs.height, nargs.width)
    /\ \A j \in 1 .. NumPresets : files[j].state = "saved" =>
          /\ files[j].image.h = size /\ files[j].image.w = size
          /\ DOMAIN files[j].image.px = Pixels(size, size)

\* an image was saved at a resolution that no power of two above 1 divides
C9_Witness == files[NumPresets].state = "saved" /\ size = 3

\* random.uniform(15, 35) is at least 15
MinStepX == 15
\* the most points a walk over an image of width w can accumulate
PointsBound(w) == ((RightBound(w) - LeftBound(w) - 1) \div MinStepX) + 1

\* C10: x grows by at least 15 per step of the walk, so a vein has at most
\* PointsBound(width) points, and add_veins returns after num_veins veins.
C10_WalkTerminates ==
    /\ [](/\ Len(points) <= PointsBound(img.w)
          /\ pc = "av_while" => walk.x >= walk.start_x + MinStepX * Len(points)
          /\ vein <= NumVeins)
    /\ <>(pc = "veins_done" /\ vein = NumVeins)

\* a walk took as many points as the width allows, and add_veins returned
C10_Witness ==
    /\ pc = "veins_done"
    /\ img.w > 1
    /\ \E i \in 1 .. Len(line_calls) : Len(line_calls[i]) = PointsBound(img.w)

====
